---- MODULE Spec2Model ----
(***************************************************************************)
(* The disease catalog server of backend/main.js: the asynchronous start   *)
(* of the process (open the database, create the table, count the rows,    *)
(* insert the sample rows), the five catalog routes and the chatbot route, *)
(* over one SQLite table.                                                  *)
(*                                                                         *)
(* A statement is one atomic step of the database; a route is the          *)
(* statement it runs together with the response its callback sends.        *)
(* A text is a string; where the code looks inside one (toLowerCase,       *)
(* includes, LIKE) CharsOf gives its characters.                           *)
(***************************************************************************)
EXTENDS Integers, Sequences, FiniteSets, TLC

VARIABLES
  pc,            \* where the start-up chain of the running process stands
  listening,     \* the HTTP server of the running process accepts requests
  tableExists,   \* database.db holds the diseases table
  diseases,      \* the rows of the diseases table
  seq,           \* sqlite_sequence of diseases: the largest rowid ever given
  seedIx,        \* how many stmt.run calls of insertSampleData have finished
  emptyAtStart,  \* the catalog held no row when the running process started
  http           \* the last request a route answered, and its response

vars == <<pc, listening, tableExists, diseases, seq, seedIx, emptyAtStart, http>>

\* The largest rowid the model lets the table give out.
MaxSeq == 6

\* The same, where the catalog starts out seeded and only grows and shrinks.
MaxListed == 8

(***************************************************************************)
(* The sample rows                                                         *)
(***************************************************************************)

Fields == {"name", "symptoms", "causes", "prevention", "when_to_see_doctor"}

sampleDiseases ==
  <<
  [
   name |->
     "Diabetes",
   symptoms |->
     "Increased thirst, frequent urination, extreme hunger, unexplained weight loss, fatigue, blurred vision, slow-healing sores",
   causes |->
     "Insulin resistance, pancreas not producing enough insulin, genetic factors, obesity, sedentary lifestyle",
   prevention |->
     "Maintain healthy weight, exercise regularly (30 mins daily), eat balanced diet with less sugar, monitor blood sugar levels, avoid smoking",
   when_to_see_doctor |->
     "If you experience excessive thirst and urination, unexplained weight loss, or persistent fatigue. Regular checkups if you have family history."
  ],
  [
   name |->
     "Dengue",
   symptoms |->
     "High fever, severe headache, pain behind eyes, joint and muscle pain, nausea, vomiting, skin rash, mild bleeding (nose/gums)",
   causes |->
     "Aedes mosquito bite carrying dengue virus, standing water breeding grounds, tropical climate areas",
   prevention |->
     "Use mosquito repellent, wear long sleeves, eliminate standing water, use mosquito nets, keep surroundings clean",
   when_to_see_doctor |->
     "Immediately if you have high fever with severe headache, persistent vomiting, bleeding, difficulty breathing, or severe abdominal pain."
  ],
  [
   name |->
     "Malaria",
   symptoms |->
     "High fever with chills, sweating, headache, nausea, vomiting, muscle pain, fatigue, anemia",
   causes |->
     "Anopheles mosquito bite carrying plasmodium parasite, exposure to infected blood",
   prevention |->
     "Sleep under mosquito nets, use insect repellent, take antimalarial medication in high-risk areas, eliminate mosquito breeding sites",
   when_to_see_doctor |->
     "Seek immediate care for high fever after visiting malaria-prone areas, severe headache, confusion, seizures, or difficulty breathing."
  ],
  [
   name |->
     "Common Cold",
   symptoms |->
     "Runny nose, sore throat, cough, sneezing, mild headache, slight fever, body aches",
   causes |->
     "Viral infection (rhinovirus), spread through droplets, weakened immunity, seasonal changes",
   prevention |->
     "Wash hands frequently, avoid close contact with sick people, boost immunity with vitamin C, stay hydrated, get enough sleep",
   when_to_see_doctor |->
     "If symptoms last more than 10 days, fever above 101.3°F, difficulty breathing, severe throat pain, or symptoms worsen after improving."
  ],
  [
   name |->
     "Hypertension",
   symptoms |->
     "Usually no symptoms (silent killer), sometimes headaches, shortness of breath, nosebleeds in severe cases",
   causes |->
     "High salt intake, obesity, lack of exercise, stress, smoking, alcohol, genetic factors",
   prevention |->
     "Reduce salt intake, exercise regularly, maintain healthy weight, manage stress, limit alcohol, quit smoking, monitor blood pressure",
   when_to_see_doctor |->
     "Regular checkups recommended. Seek immediate care for severe headache, chest pain, vision problems, or difficulty breathing."
  ]
  >>

(***************************************************************************)
(* Requests                                                                *)
(***************************************************************************)

\* A field of a JSON body: << >> when the body does not carry it (undefined,
\* bound as SQL NULL), <<s>> when it carries the string s.
Absent == << >>

BodyFlu ==
  [
   name |-> <<"Flu">>,
   symptoms |-> <<"Symptom doctor sees: fever">>,
   causes |-> <<"Cause: virus; prevent hospital spread">>,
   prevention |-> <<"rest">>,
   when_to_see_doctor |-> <<"soon">>
  ]
BodyNoName ==
  [
   name |-> << >>,
   symptoms |-> <<"itching">>,
   causes |-> <<"mites">>,
   prevention |-> <<"hygiene">>,
   when_to_see_doctor |-> <<"if it spreads">>
  ]

\* The body of a request that carries none.
NoBody == [f \in Fields |-> Absent]

Bodies == {BodyFlu, BodyNoName}

\* The :id of a request: the first rowid, and from the last sample row on
\* every rowid the table can give out and one it cannot.
ReqIds(max) == {1} \cup (Len(sampleDiseases)..(max + 1))

\* The message of a chatbot request.
Messages ==
  {"diabetes symptoms", "fever", "Flu", "symptom doctor", "cause",
   "prevent hospital", "hospital"}

(***************************************************************************)
(* Text                                                                    *)
(***************************************************************************)

\* The characters of the texts the code looks inside: name, symptoms and
\* causes of every row, the messages, the keywords.
CharsOf ==
     ("Diabetes" :>
      <<"D","i","a","b","e","t","e","s">>)
  @@ ("Increased thirst, frequent urination, extreme hunger, unexplained weight loss, fatigue, blurred vision, slow-healing sores" :>
      <<"I","n","c","r","e","a","s","e","d"," ","t","h","i","r","s","t",","," ","f","r","e","q",
        "u","e","n","t"," ","u","r","i","n","a","t","i","o","n",","," ","e","x","t","r","e","m",
        "e"," ","h","u","n","g","e","r",","," ","u","n","e","x","p","l","a","i","n","e","d"," ",
        "w","e","i","g","h","t"," ","l","o","s","s",","," ","f","a","t","i","g","u","e",","," ",
        "b","l","u","r","r","e","d"," ","v","i","s","i","o","n",","," ","s","l","o","w","-","h",
        "e","a","l","i","n","g"," ","s","o","r","e","s">>)
  @@ ("Insulin resistance, pancreas not producing enough insulin, genetic factors, obesity, sedentary lifestyle" :>
      <<"I","n","s","u","l","i","n"," ","r","e","s","i","s","t","a","n","c","e",","," ","p","a",
        "n","c","r","e","a","s"," ","n","o","t"," ","p","r","o","d","u","c","i","n","g"," ","e",
        "n","o","u","g","h"," ","i","n","s","u","l","i","n",","," ","g","e","n","e","t","i","c",
        " ","f","a","c","t","o","r","s",","," ","o","b","e","s","i","t","y",","," ","s","e","d",
        "e","n","t","a","r","y"," ","l","i","f","e","s","t","y","l","e">>)
  @@ ("Dengue" :>
      <<"D","e","n","g","u","e">>)
  @@ ("High fever, severe headache, pain behind eyes, joint and muscle pain, nausea, vomiting, skin rash, mild bleeding (nose/gums)" :>
      <<"H","i","g","h"," ","f","e","v","e","r",","," ","s","e","v","e","r","e"," ","h","e","a",
        "d","a","c","h","e",","," ","p","a","i","n"," ","b","e","h","i","n","d"," ","e","y","e",
        "s",","," ","j","o","i","n","t"," ","a","n","d"," ","m","u","s","c","l","e"," ","p","a",
        "i","n",","," ","n","a","u","s","e","a",","," ","v","o","m","i","t","i","n","g",","," ",
        "s","k","i","n"," ","r","a","s","h",","," ","m","i","l","d"," ","b","l","e","e","d","i",
        "n","g"," ","(","n","o","s","e","/","g","u","m","s",")">>)
  @@ ("Aedes mosquito bite carrying dengue virus, standing water breeding grounds, tropical climate areas" :>
      <<"A","e","d","e","s"," ","m","o","s","q","u","i","t","o"," ","b","i","t","e"," ","c","a",
        "r","r","y","i","n","g"," ","d","e","n","g","u","e"," ","v","i","r","u","s",","," ","s",
        "t","a","n","d","i","n","g"," ","w","a","t","e","r"," ","b","r","e","e","d","i","n","g",
        " ","g","r","o","u","n","d","s",","," ","t","r","o","p","i","c","a","l"," ","c","l","i",
        "m","a","t","e"," ","a","r","e","a","s">>)
  @@ ("Malaria" :>
      <<"M","a","l","a","r","i","a">>)
  @@ ("High fever with chills, sweating, headache, nausea, vomiting, muscle pain, fatigue, anemia" :>
      <<"H","i","g","h"," ","f","e","v","e","r"," ","w","i","t","h"," ","c","h","i","l","l","s",
        ","," ","s","w","e","a","t","i","n","g",","," ","h","e","a","d","a","c","h","e",","," ",
        "n","a","u","s","e","a",","," ","v","o","m","i","t","i","n","g",","," ","m","u","s","c",
        "l","e"," ","p","a","i","n",","," ","f","a","t","i","g","u","e",","," ","a","n","e","m",
        "i","a">>)
  @@ ("Anopheles mosquito bite carrying plasmodium parasite, exposure to infected blood" :>
      <<"A","n","o","p","h","e","l","e","s"," ","m","o","s","q","u","i","t","o"," ","b","i","t",
        "e"," ","c","a","r","r","y","i","n","g"," ","p","l","a","s","m","o","d","i","u","m"," ",
        "p","a","r","a","s","i","t","e",","," ","e","x","p","o","s","u","r","e"," ","t","o"," ",
        "i","n","f","e","c","t","e","d"," ","b","l","o","o","d">>)
  @@ ("Common Cold" :>
      <<"C","o","m","m","o","n"," ","C","o","l","d">>)
  @@ ("Runny nose, sore throat, cough, sneezing, mild headache, slight fever, body aches" :>
      <<"R","u","n","n","y"," ","n","o","s","e",","," ","s","o","r","e"," ","t","h","r","o","a",
        "t",","," ","c","o","u","g","h",","," ","s","n","e","e","z","i","n","g",","," ","m","i",
        "l","d"," ","h","e","a","d","a","c","h","e",","," ","s","l","i","g","h","t"," ","f","e",
        "v","e","r",","," ","b","o","d","y"," ","a","c","h","e","s">>)
  @@ ("Viral infection (rhinovirus), spread through droplets, weakened immunity, seasonal changes" :>
      <<"V","i","r","a","l"," ","i","n","f","e","c","t","i","o","n"," ","(","r","h","i","n","o",
        "v","i","r","u","s",")",","," ","s","p","r","e","a","d"," ","t","h","r","o","u","g","h",
        " ","d","r","o","p","l","e","t","s",","," ","w","e","a","k","e","n","e","d"," ","i","m",
        "m","u","n","i","t","y",","," ","s","e","a","s","o","n","a","l"," ","c","h","a","n","g",
        "e","s">>)
  @@ ("Hypertension" :>
      <<"H","y","p","e","r","t","e","n","s","i","o","n">>)
  @@ ("Usually no symptoms (silent killer), sometimes headaches, shortness of breath, nosebleeds in severe cases" :>
      <<"U","s","u","a","l","l","y"," ","n","o"," ","s","y","m","p","t","o","m","s"," ","(","s",
        "i","l","e","n","t"," ","k","i","l","l","e","r",")",","," ","s","o","m","e","t","i","m",
        "e","s"," ","h","e","a","d","a","c","h","e","s",","," ","s","h","o","r","t","n","e","s",
        "s"," ","o","f"," ","b","r","e","a","t","h",","," ","n","o","s","e","b","l","e","e","d",
        "s"," ","i","n"," ","s","e","v","e","r","e"," ","c","a","s","e","s">>)
  @@ ("High salt intake, obesity, lack of exercise, stress, smoking, alcohol, genetic factors" :>
      <<"H","i","g","h"," ","s","a","l","t"," ","i","n","t","a","k","e",","," ","o","b","e","s",
        "i","t","y",","," ","l","a","c","k"," ","o","f"," ","e","x","e","r","c","i","s","e",",",
        " ","s","t","r","e","s","s",","," ","s","m","o","k","i","n","g",","," ","a","l","c","o",
        "h","o","l",","," ","g","e","n","e","t","i","c"," ","f","a","c","t","o","r","s">>)
  @@ ("Flu" :>
      <<"F","l","u">>)
  @@ ("Symptom doctor sees: fever" :>
      <<"S","y","m","p","t","o","m"," ","d","o","c","t","o","r"," ","s","e","e","s",":"," ","f",
        "e","v","e","r">>)
  @@ ("Cause: virus; prevent hospital spread" :>
      <<"C","a","u","s","e",":"," ","v","i","r","u","s",";"," ","p","r","e","v","e","n","t"," ",
        "h","o","s","p","i","t","a","l"," ","s","p","r","e","a","d">>)
  @@ ("diabetes symptoms" :>
      <<"d","i","a","b","e","t","e","s"," ","s","y","m","p","t","o","m","s">>)
  @@ ("fever" :>
      <<"f","e","v","e","r">>)
  @@ ("symptom doctor" :>
      <<"s","y","m","p","t","o","m"," ","d","o","c","t","o","r">>)
  @@ ("cause" :>
      <<"c","a","u","s","e">>)
  @@ ("prevent hospital" :>
      <<"p","r","e","v","e","n","t"," ","h","o","s","p","i","t","a","l">>)
  @@ ("hospital" :>
      <<"h","o","s","p","i","t","a","l">>)
  @@ ("symptom" :>
      <<"s","y","m","p","t","o","m">>)
  @@ ("prevent" :>
      <<"p","r","e","v","e","n","t">>)
  @@ ("avoid" :>
      <<"a","v","o","i","d">>)
  @@ ("doctor" :>
      <<"d","o","c","t","o","r">>)

UpperChars ==
  <<"A","B","C","D","E","F","G","H","I","J","K","L","M",
    "N","O","P","Q","R","S","T","U","V","W","X","Y","Z">>

LowerChars ==
  <<"a","b","c","d","e","f","g","h","i","j","k","l","m",
    "n","o","p","q","r","s","t","u","v","w","x","y","z">>

\* The lower-case letter of each upper-case one.
LowerOf ==
  [c \in {UpperChars[k] : k \in DOMAIN UpperChars} |->
     LowerChars[CHOOSE k \in DOMAIN UpperChars : UpperChars[k] = c]] @@ << >>

LowerChar(c) == IF c \in DOMAIN LowerOf THEN LowerOf[c] ELSE c

\* String.prototype.toLowerCase, and LOWER() of SQLite, on the characters used.
toLowerCase(s) == [i \in 1..Len(s) |-> LowerChar(s[i])]

\* String.prototype.includes
includes(s, sub) ==
  \E i \in 0..(Len(s) - Len(sub)) :
     \A k \in 1..Len(sub) : s[i + k] = sub[k]

\* The LIKE operator of SQLite: % matches any run of characters, _ any one
\* character, every other character itself without regard to ASCII case.
\* LikeFrom(pat, i, str, j): pat from position i matches str from position j.
RECURSIVE LikeFrom(_, _, _, _)
LikeFrom(pat, i, str, j) ==
  IF i > Len(pat) THEN j > Len(str)
  ELSE IF pat[i] = "%"
    THEN \/ i = Len(pat)
         \/ \E k \in j..(Len(str) + 1) : LikeFrom(pat, i + 1, str, k)
  ELSE /\ j <= Len(str)
       /\ (pat[i] = "_" \/ LowerChar(pat[i]) = LowerChar(str[j]))
       /\ LikeFrom(pat, i + 1, str, j + 1)

Like(str, pat) == LikeFrom(pat, 1, str, 1)

(***************************************************************************)
(* The table                                                               *)
(***************************************************************************)

\* A row: the rowid and the five values bound to the statement.
Row(id, v) ==
  [id |-> id, name |-> v.name, symptoms |-> v.symptoms, causes |-> v.causes,
   prevention |-> v.prevention, when_to_see_doctor |-> v.when_to_see_doctor]

\* The values a body binds, when it carries all five.
Bound(b) == [f \in Fields |-> b[f][1]]

FieldsOf(r) == [f \in Fields |-> r[f]]

Ids(rows) == {r.id : r \in rows}

MaxOf(S) == CHOOSE x \in S : \A y \in S : y <= x

\* The rowid of the next insert, had the column no AUTOINCREMENT: one more
\* than the largest rowid now in the table.
NextRowidOfLargest == MaxOf(Ids(diseases) \cup {0}) + 1

\* id INTEGER PRIMARY KEY AUTOINCREMENT: one more than the largest rowid the
\* table ever held.
NextRowid == MaxOf(Ids(diseases) \cup {seq}) + 1

\* NOT NULL on the five columns.
NotNull(b) == \A f \in Fields : b[f] # Absent

\* A scan of the table: SELECT without ORDER BY walks the rowids upwards.
RECURSIVE Scan(_)
Scan(rows) ==
  IF rows = {} THEN <<>>
  ELSE LET r == CHOOSE x \in rows : \A y \in rows : x.id <= y.id
       IN  <<r>> \o Scan(rows \ {r})


\* WHERE id = ?
WhereId(id) == {r \in diseases : r.id = id}

\* INSERT INTO diseases (name, ...) VALUES (?, ...): the table afterwards.
Inserted(v) == diseases \cup {Row(NextRowid, v)}

\* UPDATE diseases SET name = ?, ... WHERE id = ?
\* The same statement setting the name alone.
UpdatedNameOnly(id, v) ==
  {IF r.id = id THEN [r EXCEPT !.name = v.name] ELSE r : r \in diseases}

Updated(id, v) == {IF r.id = id THEN Row(id, v) ELSE r : r \in diseases}

\* The same statement with the comparison turned round.
DeletedOthers(id) == WhereId(id)

\* DELETE FROM diseases WHERE id = ?
Deleted(id) == diseases \ WhereId(id)

(***************************************************************************)
(* Responses                                                               *)
(***************************************************************************)

NoSuchTable == "SQLITE_ERROR: no such table: diseases"
NotNullFailed == "SQLITE_CONSTRAINT: NOT NULL constraint failed"

Request(op, id, body, message) ==
  [op |-> op, id |-> id, body |-> body, message |-> message]

Response(status, error, message, lastID, disease, list, reply) ==
  [status |-> status, error |-> error, message |-> message, lastID |-> lastID,
   disease |-> disease, diseases |-> list, reply |-> reply]

\* res.status(s).json({ error })
ErrorJson(status, error) == Response(status, error, "", 0, <<>>, <<>>, <<>>)

NoExchange ==
  [req |-> Request("none", 0, NoBody, ""),
   res |-> Response(0, "", "", 0, <<>>, <<>>, <<>>)]

\* The rows from the newest to the oldest.
SelectNewestFirst ==
  LET up == Scan(diseases) IN [i \in 1..Len(up) |-> up[Len(up) + 1 - i]]

\* SELECT * FROM diseases
SelectAll == Scan(diseases)

\* GET /api/diseases
listAll ==
  IF ~tableExists THEN ErrorJson(500, NoSuchTable)
  ELSE Response(200, "", "", 0, <<>>, SelectAll, <<>>)

\* GET /api/diseases/:id
getById(id) ==
  IF ~tableExists THEN ErrorJson(500, NoSuchTable)
  ELSE IF WhereId(id) = {} THEN ErrorJson(404, "Disease not found")
  ELSE Response(200, "", "", 0, Scan(WhereId(id)), <<>>, <<>>)

\* POST /api/diseases
create(b) ==
  IF ~tableExists THEN ErrorJson(500, NoSuchTable)
  ELSE IF ~NotNull(b) THEN ErrorJson(500, NotNullFailed)
  ELSE Response(200, "", "Disease added successfully", NextRowid, <<>>, <<>>, <<>>)

\* this.changes of the UPDATE and of the DELETE
Changes(id) == Cardinality(WhereId(id))

\* PUT /api/diseases/:id
update(id, b) ==
  IF ~tableExists THEN ErrorJson(500, NoSuchTable)
  ELSE IF Changes(id) # 0 /\ ~NotNull(b) THEN ErrorJson(500, NotNullFailed)
  ELSE IF Changes(id) = 0 THEN ErrorJson(404, "Disease not found")
  ELSE Response(200, "", "Disease updated successfully", 0, <<>>, <<>>, <<>>)

\* DELETE /api/diseases/:id
delete(id) ==
  IF ~tableExists THEN ErrorJson(500, NoSuchTable)
  ELSE IF Changes(id) = 0 THEN ErrorJson(404, "Disease not found")
  ELSE Response(200, "", "Disease deleted successfully", 0, <<>>, <<>>, <<>>)

\* `%${searchTerm}%`
Pattern(searchTerm) == <<"%">> \o searchTerm \o <<"%">>

\* LOWER(column) LIKE ?, for each text a searched column can hold and each
\* message, by the definitions above (@@ has the table worked out once).
LikeTable ==
  [p \in (DOMAIN CharsOf) \X Messages |->
     Like(toLowerCase(CharsOf[p[1]]), Pattern(toLowerCase(CharsOf[p[2]])))] @@ << >>

\* WHERE LOWER(name) LIKE ? OR LOWER(symptoms) LIKE ? OR LOWER(causes) LIKE ?
Matches(r, m) ==
  \/ LikeTable[<<r.name, m>>]
  \/ LikeTable[<<r.symptoms, m>>]
  \/ LikeTable[<<r.causes, m>>]

Heading(disease) == <<"**", disease.name, "**\n\n">>
SymptomsSection(disease) == <<"**Symptoms:**\n", disease.symptoms, "\n\n">>
CausesSection(disease) == <<"**Causes:**\n", disease.causes, "\n\n">>
PreventionSection(disease) == <<"**Prevention:**\n", disease.prevention, "\n\n">>
DoctorSection(disease) ==
  <<"**When to see a doctor:**\n", disease.when_to_see_doctor, "\n\n">>
\* the last section of the complete answer ends without the blank line
DoctorSectionLast(disease) ==
  <<"**When to see a doctor:**\n", disease.when_to_see_doctor>>

\* The same function with the doctor rule tried first.
formatDoctorFirst(disease, query) ==
  Heading(disease) \o
  ( IF includes(query, CharsOf["doctor"]) \/ includes(query, CharsOf["hospital"])
      THEN DoctorSection(disease)
    ELSE IF includes(query, CharsOf["symptom"]) THEN SymptomsSection(disease)
    ELSE IF includes(query, CharsOf["cause"]) THEN CausesSection(disease)
    ELSE IF includes(query, CharsOf["prevent"]) \/ includes(query, CharsOf["avoid"])
      THEN PreventionSection(disease)
    ELSE SymptomsSection(disease) \o CausesSection(disease)
           \o PreventionSection(disease) \o DoctorSectionLast(disease) )

\* formatChatbotResponse: the reply as the pieces the template literals join
formatChatbotResponse(disease, query) ==
  Heading(disease) \o
  ( IF includes(query, CharsOf["symptom"]) THEN SymptomsSection(disease)
    ELSE IF includes(query, CharsOf["cause"]) THEN CausesSection(disease)
    ELSE IF includes(query, CharsOf["prevent"]) \/ includes(query, CharsOf["avoid"])
      THEN PreventionSection(disease)
    ELSE IF includes(query, CharsOf["doctor"]) \/ includes(query, CharsOf["hospital"])
      THEN DoctorSection(disease)
    ELSE SymptomsSection(disease) \o CausesSection(disease)
           \o PreventionSection(disease) \o DoctorSectionLast(disease) )

FallbackReply ==
  "I'm sorry, I couldn't find information about that. Please try asking about common diseases like diabetes, dengue, malaria, common cold, or hypertension. You can also ask about symptoms, causes, or prevention."

\* POST /api/chatbot
chatbot(m) ==
  IF ~tableExists THEN ErrorJson(500, NoSuchTable)
  ELSE LET searchTerm == toLowerCase(CharsOf[m])
           rows == Scan({r \in diseases : Matches(r, m)})
       IN  IF Len(rows) = 0
             THEN Response(200, "", "", 0, <<>>, <<>>, <<FallbackReply>>)
             ELSE Response(200, "", "", 0, <<rows[1]>>, <<>>,
                           formatChatbotResponse(rows[1], searchTerm))

(***************************************************************************)
(* Start-up                                                                *)
(***************************************************************************)

\* The driver runs a statement only on an open database; one issued before
\* the database is open waits for it, for ever if the open fails.
DbOpen == pc \notin {"opening", "openFailed"}

Init ==
  /\ pc = "opening"
  /\ listening = FALSE
  /\ tableExists = FALSE
  /\ diseases = {}
  /\ seq = 0
  /\ seedIx = 0
  /\ emptyAtStart = TRUE
  /\ http = NoExchange

\* app.listen(PORT): the server accepts requests whatever the database does.
Listen ==
  /\ ~listening
  /\ listening' = TRUE
  /\ UNCHANGED <<pc, tableExists, diseases, seq, seedIx, emptyAtStart, http>>

\* new sqlite3.Database('./database.db', callback), err == null
OpenDatabase ==
  /\ pc = "opening"
  /\ pc' = "creating"
  /\ UNCHANGED <<listening, tableExists, diseases, seq, seedIx, emptyAtStart, http>>

\* the same callback with an error: it is logged, and nothing else happens
OpenDatabaseFails ==
  /\ pc = "opening"
  /\ pc' = "openFailed"
  /\ UNCHANGED <<listening, tableExists, diseases, seq, seedIx, emptyAtStart, http>>

\* createTables: CREATE TABLE IF NOT EXISTS diseases, err == null
createTables ==
  /\ pc = "creating"
  /\ tableExists' = TRUE
  /\ pc' = "counting"
  /\ UNCHANGED <<listening, diseases, seq, seedIx, emptyAtStart, http>>

\* the same statement with an error: it is logged, and nothing else happens
createTablesFails ==
  /\ pc = "creating"
  /\ pc' = "createFailed"
  /\ UNCHANGED <<listening, tableExists, diseases, seq, seedIx, emptyAtStart, http>>

\* insertSampleData: SELECT COUNT(*), then the five stmt.run calls are queued
insertSampleData ==
  /\ pc = "counting"
  /\ IF Cardinality(diseases) = 0
       THEN /\ seq + Len(sampleDiseases) <= MaxSeq
            /\ pc' = "seeding"
       ELSE pc' = "ready"
  /\ seedIx' = 0
  /\ UNCHANGED <<listening, tableExists, diseases, seq, emptyAtStart, http>>

\* one stmt.run of the forEach: the runs of one statement happen in order
stmtRun ==
  /\ pc = "seeding"
  /\ diseases' = Inserted(sampleDiseases[seedIx + 1])
  /\ seq' = NextRowid
  /\ seedIx' = seedIx + 1
  /\ pc' = IF seedIx + 1 = Len(sampleDiseases) THEN "ready" ELSE "seeding"
  /\ UNCHANGED <<listening, tableExists, emptyAtStart, http>>

\* The process is stopped and started again: database.db stays as it is.
Restart ==
  /\ pc' = "opening"
  /\ listening' = FALSE
  /\ seedIx' = 0
  /\ emptyAtStart' = (diseases = {})
  /\ http' = NoExchange
  /\ UNCHANGED <<tableExists, diseases, seq>>

(***************************************************************************)
(* Routes                                                                  *)
(***************************************************************************)

Serving == listening /\ DbOpen

\* The stmt.run calls still queued take rowids too.
PendingSeeds == IF pc = "seeding" THEN Len(sampleDiseases) - seedIx ELSE 0

GetDiseases ==
  /\ Serving
  /\ http' = [req |-> Request("list", 0, NoBody, ""), res |-> listAll]
  /\ UNCHANGED <<pc, listening, tableExists, diseases, seq, seedIx, emptyAtStart>>

GetDiseaseById(ids) ==
  /\ Serving
  /\ \E id \in ids :
       http' = [req |-> Request("get", id, NoBody, ""), res |-> getById(id)]
  /\ UNCHANGED <<pc, listening, tableExists, diseases, seq, seedIx, emptyAtStart>>

PostDisease(max) ==
  /\ Serving
  /\ \E b \in Bodies :
       /\ http' = [req |-> Request("create", 0, b, ""), res |-> create(b)]
       /\ IF create(b).status = 200
            THEN /\ seq + PendingSeeds < max
                 /\ diseases' = Inserted(Bound(b))
                 /\ seq' = NextRowid
            ELSE UNCHANGED <<diseases, seq>>
  /\ UNCHANGED <<pc, listening, tableExists, seedIx, emptyAtStart>>

PutDisease(ids) ==
  /\ Serving
  /\ \E id \in ids, b \in Bodies :
       /\ http' = [req |-> Request("update", id, b, ""), res |-> update(id, b)]
       /\ diseases' = IF update(id, b).status = 200
                        THEN Updated(id, Bound(b)) ELSE diseases
  /\ UNCHANGED <<pc, listening, tableExists, seq, seedIx, emptyAtStart>>

DeleteDisease(ids) ==
  /\ Serving
  /\ \E id \in ids :
       /\ http' = [req |-> Request("delete", id, NoBody, ""), res |-> delete(id)]
       /\ diseases' = IF delete(id).status = 200 THEN Deleted(id) ELSE diseases
  /\ UNCHANGED <<pc, listening, tableExists, seq, seedIx, emptyAtStart>>

PostChatbot ==
  /\ Serving
  /\ \E m \in Messages :
       http' = [req |-> Request("chat", 0, NoBody, m), res |-> chatbot(m)]
  /\ UNCHANGED <<pc, listening, tableExists, diseases, seq, seedIx, emptyAtStart>>

(***************************************************************************)
(* The server                                                              *)
(***************************************************************************)

Next ==
  \/ Listen
  \/ OpenDatabase
  \/ OpenDatabaseFails
  \/ createTables
  \/ createTablesFails
  \/ insertSampleData
  \/ stmtRun
  \/ Restart
  \/ GetDiseases
  \/ GetDiseaseById(ReqIds(MaxSeq))
  \/ PostDisease(MaxSeq)
  \/ PutDisease(ReqIds(MaxSeq))
  \/ DeleteDisease(ReqIds(MaxSeq))
  \/ PostChatbot

Spec == Init /\ [][Next]_vars

(***************************************************************************)
(* The seeded catalog: the server after a first start that no request      *)
(* disturbed, with rows added, listed and removed.                         *)
(***************************************************************************)

Seeded ==
  /\ pc = "ready"
  /\ listening = TRUE
  /\ tableExists = TRUE
  /\ diseases = {Row(i, sampleDiseases[i]) : i \in DOMAIN sampleDiseases}
  /\ seq = Len(sampleDiseases)
  /\ seedIx = Len(sampleDiseases)
  /\ emptyAtStart = TRUE
  /\ http = NoExchange

NextListing ==
  \/ GetDiseases
  \/ GetDiseaseById(1..(MaxListed + 1))
  \/ PostDisease(MaxListed)
  \/ DeleteDisease(1..(MaxListed + 1))

SpecListing == Seeded /\ [][NextListing]_vars

(***************************************************************************)
(* Properties                                                              *)
(***************************************************************************)

Catalog == ReqIds(MaxSeq)

\* The five texts of each row, in the order of the scan.
Texts(rows) == [i \in 1..Len(Scan(rows)) |-> FieldsOf(Scan(rows)[i])]

\* The table holds the five sample rows and nothing else.
SeedsOnly == tableExists /\ Texts(diseases) = sampleDiseases

\* C1: every create whose five fields are all present succeeds, and the id
\* it returns resolves through getById to a record with the submitted values.
C1_CreateThenGet ==
  (http.req.op = "create" /\ NotNull(http.req.body))
    => /\ http.res.status = 200
       /\ getById(http.res.lastID).status = 200
       /\ Texts(WhereId(http.res.lastID)) = <<Bound(http.req.body)>>

\* C2: getById, update and delete of an id that no row of the store has
\* each answer 404, never 200 and never 500.
C2_MissingIdIsNotFound ==
  [][ ( /\ \/ GetDiseaseById(Catalog)
           \/ PutDisease(Catalog)
           \/ DeleteDisease(Catalog)
        /\ http'.req.id \notin Ids(diseases) )
      => /\ http'.res.status = 404
         /\ http'.res.error = "Disease not found" ]_vars

\* C3: after a successful update, getById of the same id answers the record
\* whose five texts are the submitted ones, under the same id.
C3_UpdateThenGet ==
  (http.req.op = "update" /\ http.res.status = 200)
    => /\ getById(http.req.id).status = 200
       /\ getById(http.req.id).disease = <<Row(http.req.id, Bound(http.req.body))>>

\* a sample row was replaced: row 2 is the second sample, so row 1 was the first
C3_Witness ==
  /\ http.req.op = "update" /\ http.res.status = 200 /\ http.req.id = 1
  /\ Row(2, sampleDiseases[2]) \in diseases
  /\ Row(1, Bound(BodyFlu)) \in diseases

\* C4: after a successful delete, getById and a second delete of the same id
\* answer 404, and so does every later one: a deleted id never comes back.
C4_DeleteThenNotFound ==
  /\ [] ( (http.req.op = "delete" /\ http.res.status = 200)
            => /\ getById(http.req.id).status = 404
               /\ delete(http.req.id).status = 404 )
  /\ [][ (Ids(diseases') \cap (1..seq)) \subseteq Ids(diseases) ]_vars

\* the second delete of an id the table once gave out
C4_Witness ==
  /\ http.req.op = "delete" /\ http.res.status = 404
  /\ tableExists /\ http.req.id <= seq

\* C5: an id names at most one row, and an id once given to a row is never
\* given to another one, whatever was deleted since.
C5_IdsUniqueNeverReused ==
  /\ [] ( /\ \A r1, r2 \in diseases : r1.id = r2.id => r1 = r2
          /\ \A r \in diseases : r.id <= seq )
  /\ [][ /\ seq' >= seq
         /\ \A r \in diseases' : r.id \notin Ids(diseases) => r.id > seq ]_vars

\* a create after the row of the highest id was deleted
C5_Witness ==
  /\ http.req.op = "create" /\ http.res.status = 200
  /\ http.res.lastID = seq /\ seq >= 2
  /\ (seq - 1) \notin Ids(diseases)
  /\ seq \in Ids(diseases)

\* C6: a start on an empty catalog ends with exactly the five sample rows in
\* the catalog, in their order, and a start on a catalog that is not empty
\* inserts none, whatever requests arrive in between.
C6_SeedsExactlyWhenEmpty ==
  [][ /\ (pc # "ready" /\ pc' = "ready" /\ emptyAtStart)
           => Texts(diseases') = sampleDiseases
      /\ stmtRun => emptyAtStart ]_vars

\* C7: on the five sample rows, the message "diabetes symptoms" is answered
\* with the Diabetes row and a reply of its heading and its symptoms alone.
C7_DiabetesSymptoms ==
  [][ (PostChatbot /\ SeedsOnly /\ http'.req.message = "diabetes symptoms")
      => /\ http'.res.disease = <<Row(1, sampleDiseases[1])>>
         /\ http'.res.reply = Heading(sampleDiseases[1])
                                \o SymptomsSection(sampleDiseases[1]) ]_vars

\* C8: the reply to a message that matched a row holds the sections the first
\* of these rules picks: symptom; cause; prevent or avoid; doctor or
\* hospital; otherwise all four in that order.
C8_SectionPriority ==
  (http.req.op = "chat" /\ http.res.disease # <<>>)
    => LET d == http.res.disease[1]
           q == toLowerCase(CharsOf[http.req.message])
           has(k) == includes(q, CharsOf[k])
           s == has("symptom")
           c == has("cause")
           p == has("prevent") \/ has("avoid")
           h == has("doctor") \/ has("hospital")
           body == SubSeq(http.res.reply, Len(Heading(d)) + 1, Len(http.res.reply))
       IN  /\ SubSeq(http.res.reply, 1, Len(Heading(d))) = Heading(d)
           /\ s => body = SymptomsSection(d)
           /\ (~s /\ c) => body = CausesSection(d)
           /\ (~s /\ ~c /\ p) => body = PreventionSection(d)
           /\ (~s /\ ~c /\ ~p /\ h) => body = DoctorSection(d)
           /\ (~s /\ ~c /\ ~p /\ ~h)
                => body = <<"**Symptoms:**\n", d.symptoms, "\n\n",
                            "**Causes:**\n", d.causes, "\n\n",
                            "**Prevention:**\n", d.prevention, "\n\n",
                            "**When to see a doctor:**\n", d.when_to_see_doctor>>

\* a matched message that holds both "symptom" and "doctor"
C8_Witness ==
  /\ http.req.op = "chat" /\ http.req.message = "symptom doctor"
  /\ http.res.disease # <<>>
  /\ http.res.reply = <<"**", "Flu", "**\n\n",
                        "**Symptoms:**\n", "Symptom doctor sees: fever", "\n\n">>

\* C9: listAll answers the rows of the store in the order they were inserted:
\* an insert goes last, a delete takes one row out and an update changes one
\* in place, neither moving any other; so after
\* three creates and the delete of one of the three, the five sample rows
\* and then the two rows left.
Without(s, i) == SubSeq(s, 1, i - 1) \o SubSeq(s, i + 1, Len(s))

C9_ListInInsertionOrder ==
  [][ /\ (GetDiseases /\ tableExists)
           => LET l == http'.res.diseases
              IN  /\ http'.res.status = 200
                  /\ {l[i] : i \in DOMAIN l} = diseases
                  /\ Len(l) = Cardinality(diseases)
                  /\ \A i, j \in DOMAIN l : i < j => l[i].id < l[j].id
      /\ LET old == Scan(diseases)
             new == Scan(diseases')
         IN  \/ new = old
             \/ Len(new) = Len(old) + 1 /\ SubSeq(new, 1, Len(old)) = old
             \/ /\ Len(new) = Len(old) - 1
                /\ \E i \in DOMAIN old : new = Without(old, i)
             \/ /\ Len(new) = Len(old)
                /\ \A i \in DOMAIN old : new[i].id = old[i].id ]_vars

\* the listing after the sample rows, three creates and one delete among them
C9_Witness ==
  /\ http.req.op = "list" /\ http.res.status = 200
  /\ seq = Len(sampleDiseases) + 3
  /\ Len(http.res.diseases) = Len(sampleDiseases) + 2
  /\ \A i \in DOMAIN sampleDiseases : http.res.diseases[i] = Row(i, sampleDiseases[i])
  /\ http.res.diseases[Len(sampleDiseases) + 1].id = Len(sampleDiseases) + 1
  /\ http.res.diseases[Len(sampleDiseases) + 2].id = Len(sampleDiseases) + 3

\* C10: when the database cannot be opened or the table cannot be created,
\* the process stops: it does not accept requests on the store it has not set up.
C10_InitFailureIsFatal ==
  pc \in {"openFailed", "createFailed"} => ~listening

====
